---- MODULE Spec2Model ----
(***************************************************************************)
(* OBS background-removal filter: the per-instance frame pipeline          *)
(* (background-filter.cpp), the model loader (model-inference.cpp) and     *)
(* the security gate and configuration validator (security-utils.cpp).     *)
(***************************************************************************)
EXTENDS Integers, Sequences, FiniteSets, TLC

VARIABLES gate, cfgcall, upd, filter, process_mutex, inference, create, pc, loc,
          composite, destroy

vars == <<gate, cfgcall, upd, filter, process_mutex, inference, create, pc, loc,
          composite, destroy>>

(***************************************************************************)
(* Bounds of the model.                                                    *)
(***************************************************************************)
\* longest path, in components, handed to the gate
MaxDepth == 2
\* longest allow-list handed to ValidatePath
MaxAllowed == 2
\* widest image handed to the compositor, in pixels
MaxWidth == 2
\* number of host threads that call background_filter_video
NumThreads == 2

(***************************************************************************)
(* Strings are sequences of characters; a path is a root flag and a        *)
(* sequence of file names (std::filesystem::path).                         *)
(***************************************************************************)
Min(a, b) == IF a < b THEN a ELSE b

Dot == <<".">>
DotDot == <<".", ".">>

\* std::string::find("..") != npos
FindDotDot(str) == \E i \in 1..(Len(str) - 1) : str[i] = "." /\ str[i + 1] = "."

RECURSIVE JoinNames(_)
JoinNames(names) ==
    IF names = <<>> THEN <<>>
    ELSE IF Len(names) = 1 THEN names[1]
    ELSE names[1] \o <<"/">> \o JoinNames(Tail(names))

\* fs::path::string()
PathString(p) == (IF p.abs THEN <<"/">> ELSE <<>>) \o JoinNames(p.names)

AbsPath(names) == [abs |-> TRUE, names |-> names]
RelPath(names) == [abs |-> FALSE, names |-> names]

(***************************************************************************)
(* The file system the gate looks at.  One-letter names stand for the      *)
(* directories of LoadModel's allow-list.                                  *)
(***************************************************************************)
\* /usr/share/obs/obs-plugins/obs-background-filter/models
SysModels == <<"s">>
\* /usr/local/share/obs/obs-plugins/obs-background-filter/models
LocalModels == <<"l">>
\* $HOME/.config/obs-studio/plugins/obs-background-filter/data
UserData == <<"h">>
\* $HOME/.config/obs-studio/plugins/obs-background-filter/data/models
UserModels == <<"m">>
\* a directory outside every directory LoadModel allows
TmpDir == <<"t">>

U2net == <<"u", ".", "o", "n", "n", "x">>
TwoDots == <<"v", ".", ".", "o", "n", "n", "x">>
SubDir == <<"d">>
OutLink == <<"o">>
InLink == <<"k">>
Device == <<"c">>
Evil == <<"e", ".", "b", "i", "n">>

\* the process's working directory
Cwd == <<SysModels, SubDir>>

Symlinks ==
    [p \in {<<SysModels, OutLink>>, <<TmpDir, InLink>>} |->
        IF p = <<SysModels, OutLink>> THEN <<TmpDir, Evil>>
        ELSE <<SysModels, TwoDots>>]

IsSymlink(names) == names \in DOMAIN Symlinks
SymlinkTarget(names) == Symlinks[names]

\* the type of the node a symlink-free path names
FileType(names) ==
    IF names \in {<<>>, <<SysModels>>, <<LocalModels>>, <<UserData>>,
                  <<UserData, UserModels>>, <<TmpDir>>, <<SysModels, SubDir>>}
        THEN "directory"
    ELSE IF names \in {<<SysModels, U2net>>, <<SysModels, TwoDots>>, <<TmpDir, Evil>>}
        THEN "regular"
    ELSE IF names = <<SysModels, Device>> THEN "character"
    ELSE "not_found"

\* lower-case hex digest of a regular file's content
FileDigest(names) ==
    IF names = <<SysModels, U2net>> THEN <<"a", "b">>
    ELSE IF names = <<SysModels, TwoDots>> THEN <<"a", "c">>
    ELSE <<"0", "d">>

\* what fs::file_size can report for a regular file
FileSizes == {0, 524288000, 524288001}

(***************************************************************************)
(* std::filesystem operations used by the gate.                            *)
(***************************************************************************)
\* fs::absolute
Absolute(p) == IF p.abs THEN p.names ELSE Cwd \o p.names

\* fs::weakly_canonical: symlinks resolved, "." and ".." removed
RECURSIVE WeaklyCanonical(_)
WeaklyCanonical(names) ==
    IF names = <<>> THEN <<>>
    ELSE LET parent == WeaklyCanonical(SubSeq(names, 1, Len(names) - 1))
             last == names[Len(names)]
         IN  IF last = DotDot
                 THEN IF parent = <<>> THEN <<>>
                      ELSE SubSeq(parent, 1, Len(parent) - 1)
             ELSE IF last = Dot THEN parent
             ELSE IF IsSymlink(Append(parent, last))
                 THEN SymlinkTarget(Append(parent, last))
             ELSE Append(parent, last)

CommonPrefixLen(a, b) ==
    CHOOSE k \in 0..Min(Len(a), Len(b)) :
        /\ \A i \in 1..k : a[i] = b[i]
        /\ (k = Min(Len(a), Len(b)) \/ a[k + 1] # b[k + 1])

\* fs::path::lexically_relative on two normalised absolute paths
LexicallyRelative(p, base) ==
    LET k == CommonPrefixLen(p, base)
        r == [i \in 1..(Len(base) - k) |-> DotDot] \o SubSeq(p, k + 1, Len(p))
    IN  IF r = <<>> THEN <<Dot>> ELSE r

\* fs::relative(p, base)
Relative(p, base) ==
    RelPath(LexicallyRelative(WeaklyCanonical(p), WeaklyCanonical(base)))

\* fs::status(p).type(), following symlinks
StatusType(p) == FileType(WeaklyCanonical(Absolute(p)))

\* fs::exists
Exists(p) == StatusType(p) # "not_found"

IsRegularFile_NoCheck(p) == TRUE

\* fs::is_regular_file
IsRegularFile(p) == StatusType(p) = "regular"

\* fs::path::extension of the last name
Extension(p) ==
    IF p.names = <<>> THEN <<>>
    ELSE LET n == p.names[Len(p.names)]
             dots == {i \in 1..Len(n) : n[i] = "."}
         IN  IF n = Dot \/ n = DotDot \/ dots = {} THEN <<>>
             ELSE LET i == CHOOSE j \in dots : \A m \in dots : m <= j
                  IN  IF i = 1 THEN <<>> ELSE SubSeq(n, i, Len(n))

OnnxExtension == <<".", "o", "n", "n", "x">>

(***************************************************************************)
(* Security::ValidatePath                                                  *)
(***************************************************************************)
HasTraversal_Missing(filepath) == FALSE

\* filepath.find("..") != npos
HasTraversal(filepath) == FindDotDot(PathString(filepath))

\* the loop body's test for one allowed base
WithinBase(filepath, allowed_base) ==
    LET rel == Relative(Absolute(filepath), Absolute(allowed_base))
    IN  rel.names # <<>> /\ ~FindDotDot(PathString(rel))

WithinAnyBase(filepath, allowed_base_paths) ==
    \E i \in 1..Len(allowed_base_paths) : WithinBase(filepath, allowed_base_paths[i])

(***************************************************************************)
(* Security::VerifyFileChecksum                                            *)
(***************************************************************************)
\* ::tolower on a hex digit
ToLowerChar(c) ==
    CASE c = "A" -> "a" [] c = "B" -> "b" [] c = "C" -> "c"
      [] c = "D" -> "d" [] c = "E" -> "e" [] c = "F" -> "f"
      [] OTHER -> c

ToLower(str) == [i \in 1..Len(str) |-> ToLowerChar(str[i])]

ChecksumMatches_CaseSensitive(expected_hash, calculated_hash) ==
    expected_hash = calculated_hash

\* the comparison of the two lower-cased strings
ChecksumMatches(expected_hash, calculated_hash) ==
    ToLower(expected_hash) = ToLower(calculated_hash)

\* CalculateFileSHA256: "" when the file cannot be opened
CalculateFileSHA256(p, opened) ==
    IF opened THEN FileDigest(WeaklyCanonical(Absolute(p))) ELSE <<>>

VerifyFileChecksum(p, expected_hash, opened) ==
    IF expected_hash = <<>> THEN TRUE
    ELSE LET calculated_hash == CalculateFileSHA256(p, opened)
         IN  IF calculated_hash = <<>> THEN FALSE
             ELSE ChecksumMatches(expected_hash, calculated_hash)

\* constexpr size_t max_size = 500 * 1024 * 1024
max_size == 524288000

TooLarge_NoCheck(file_size) == FALSE

TooLarge(file_size) == file_size > max_size

(***************************************************************************)
(* The gate as LoadModel composes it: ValidatePath, then                   *)
(* VerifyModelIntegrity, one action per check.  gate holds the arguments   *)
(* and locals of the two calls and the log of the checks that ran.         *)
(***************************************************************************)
GateIdle ==
    [pc |-> "idle", filepath |-> AbsPath(<<>>), allowed |-> <<>>,
     expected_hash |-> <<>>, file_size |-> -1, calculated_hash |-> <<>>,
     digested |-> FALSE, result |-> "none", reason |-> "none",
     log |-> <<>>, warnings |-> {}]

GateCall(filepath, allowed, expected_hash) ==
    [GateIdle EXCEPT !.pc = "traversal", !.filepath = filepath,
                     !.allowed = allowed, !.expected_hash = expected_hash]

GateReject(g, check, reason) ==
    [g EXCEPT !.pc = "done", !.result = "Rejected", !.reason = reason,
              !.log = Append(g.log, check)]

GatePass(g, check, next) == [g EXCEPT !.pc = next, !.log = Append(g.log, check)]

nonGate ==
    <<cfgcall, upd, filter, process_mutex, inference, create, pc, loc,
      composite, destroy>>

\* security-utils.cpp:87-90
GateTraversal ==
    /\ gate.pc = "traversal"
    /\ gate' = IF HasTraversal(gate.filepath)
                   THEN GateReject(gate, "traversal", "traversal")
                   ELSE GatePass(gate, "traversal", "contain")
    /\ UNCHANGED nonGate

\* security-utils.cpp:93-109, and LoadModel's test of the result
GateContain ==
    /\ gate.pc = "contain"
    /\ gate' = IF WithinAnyBase(gate.filepath, gate.allowed)
                   THEN GatePass(gate, "contain", "exists")
                   ELSE GateReject(gate, "contain", "outside")
    /\ UNCHANGED nonGate

\* security-utils.cpp:193-196
GateExists ==
    /\ gate.pc = "exists"
    /\ gate' = IF ~Exists(gate.filepath)
                   THEN GateReject(gate, "exists", "missing")
                   ELSE GatePass(gate, "exists", "regular")
    /\ UNCHANGED nonGate

\* security-utils.cpp:199-202
GateRegular ==
    /\ gate.pc = "regular"
    /\ gate' = IF ~IsRegularFile(gate.filepath)
                   THEN GateReject(gate, "regular", "not_regular")
                   ELSE GatePass(gate, "regular", "size")
    /\ UNCHANGED nonGate

\* security-utils.cpp:205-211; fs::file_size throws when the file has gone
GateSize ==
    /\ gate.pc = "size"
    /\ \/ \E file_size \in FileSizes :
            gate' = IF TooLarge(file_size)
                        THEN [GateReject(gate, "size", "size") EXCEPT
                                  !.file_size = file_size]
                        ELSE [GatePass(gate, "size", "extension") EXCEPT
                                  !.file_size = file_size]
       \/ gate' = [gate EXCEPT !.pc = "done", !.result = "Threw",
                               !.reason = "filesystem_error",
                               !.log = Append(gate.log, "size")]
    /\ UNCHANGED nonGate

\* security-utils.cpp:214-219
GateExtension ==
    /\ gate.pc = "extension"
    /\ gate' = [GatePass(gate, "extension", "checksum") EXCEPT
                   !.warnings = IF Extension(gate.filepath) # OnnxExtension
                                    THEN gate.warnings \cup {"extension"}
                                    ELSE gate.warnings]
    /\ UNCHANGED nonGate

\* security-utils.cpp:222-232; the file may fail to open for hashing
GateChecksum ==
    /\ gate.pc = "checksum"
    /\ \E opened \in BOOLEAN :
        gate' =
            IF gate.expected_hash # <<>>
                THEN LET g == [gate EXCEPT
                                  !.digested = TRUE,
                                  !.calculated_hash =
                                      CalculateFileSHA256(gate.filepath, opened)]
                     IN  IF ~VerifyFileChecksum(gate.filepath, gate.expected_hash, opened)
                             THEN GateReject(g, "checksum", "checksum")
                             ELSE [GatePass(g, "checksum", "done") EXCEPT
                                      !.result = "Authorized"]
                ELSE [GatePass(gate, "checksum", "done") EXCEPT
                         !.result = "Authorized",
                         !.warnings = gate.warnings \cup {"unverified"}]
    /\ UNCHANGED nonGate

(***************************************************************************)
(* Inputs of the gate.                                                     *)
(***************************************************************************)
PathNames == {SysModels, TmpDir, U2net, TwoDots, SubDir, OutLink, InLink,
              Device, Evil, DotDot}

SeqsUpTo(S, n) == UNION {[1..k -> S] : k \in 0..n}

GatePaths ==
    {[abs |-> a, names |-> ns] :
        a \in BOOLEAN, ns \in SeqsUpTo(PathNames, MaxDepth) \ {<<>>}}

AllowLists == SeqsUpTo({AbsPath(<<SysModels>>), AbsPath(<<TmpDir>>)}, MaxAllowed)

ExpectedHashes == {<<>>, <<"a", "b">>, <<"A", "B">>, <<"a", "c">>}

(***************************************************************************)
(* The host's threads.  A fault (a null dereference) ends the process.     *)
(***************************************************************************)
None == 0
Threads == 1..NumThreads

\* the thread that calls background_filter_destroy, as owner of the mutex
Destroyer == NumThreads + 1

Crashed ==
    \/ create.pc = "crashed"
    \/ destroy.pc = "crashed"
    \/ \E t \in Threads : pc[t] = "crashed"

(***************************************************************************)
(* Numbers of the settings.  A float is NaN or a number of hundredths; a   *)
(* double is the float nearest to it and the sign of what the float        *)
(* drops; a 64-bit integer is its low 32 bits (as the int they convert     *)
(* to) and its high word.                                                  *)
(***************************************************************************)
NaN == [nan |-> TRUE, v |-> 0]
Float(v) == [nan |-> FALSE, v |-> v]

\* a < b on floats: false when either is NaN
FloatLess(a, b) == ~a.nan /\ ~b.nan /\ a.v < b.v

Double(f, residue) == [f |-> f, residue |-> residue]
Int64(hi, lo) == [hi |-> hi, lo |-> lo]

\* (float) of a double: round to nearest
DoubleToFloat(d) == d.f

\* (int) of a 64-bit integer: the low 32 bits
Int64ToInt(n) == n.lo

(***************************************************************************)
(* Security::ValidateConfigValues                                          *)
(***************************************************************************)
\* threshold < 0.0f || threshold > 1.0f
ThresholdInvalid(threshold) ==
    FloatLess(threshold, Float(0)) \/ FloatLess(Float(100), threshold)

\* blur_amount < 1 || blur_amount > 50
BlurAmountInvalid(blur_amount) == blur_amount < 1 \/ blur_amount > 50

\* edge_smoothing < 1 || edge_smoothing > 10
EdgeSmoothingInvalid(edge_smoothing) == edge_smoothing < 1 \/ edge_smoothing > 10

ValidateConfigValues(threshold, blur_amount, edge_smoothing) ==
    IF ThresholdInvalid(threshold) THEN FALSE
    ELSE IF BlurAmountInvalid(blur_amount) THEN FALSE
    ELSE IF EdgeSmoothingInvalid(edge_smoothing) THEN FALSE
    ELSE TRUE

(***************************************************************************)
(* background_filter_update.  upd holds the call's argument and locals,    *)
(* cfgcall the arguments and result of its call of ValidateConfigValues.   *)
(***************************************************************************)
\* background_filter_defaults
DefaultSettings ==
    [threshold |-> Double(Float(50), 0), blur_background |-> FALSE,
     blur_amount |-> Int64(0, 15), replace_background |-> TRUE,
     replacement_color |-> <<255, 0, 255, 0>>, smooth_edges |-> TRUE,
     edge_smoothing |-> Int64(0, 3)]

\* the order of the assignments at lines 71-77
StoreOrder ==
    <<"threshold", "blur_background", "blur_amount", "replace_background",
      "replacement_color", "smooth_edges", "edge_smoothing">>

UpdIdle ==
    [pc |-> "idle", next |-> 1, settings |-> DefaultSettings,
     threshold |-> Float(0), blur_amount |-> 0, edge_smoothing |-> 0]

CfgIdle ==
    [called |-> FALSE, threshold |-> Float(0), blur_amount |-> 0,
     edge_smoothing |-> 0, ret |-> FALSE]

\* the value lines 71-77 store into the field
StoredValue(u, field) ==
    CASE field = "threshold" -> u.threshold
      [] field = "blur_amount" -> u.blur_amount
      [] field = "edge_smoothing" -> u.edge_smoothing
      [] OTHER -> u.settings[field]

\* lines 57-59: the call and the three converted reads
UpdateBegin(settings) ==
    [pc |-> "validate", next |-> 1, settings |-> settings,
     threshold |-> DoubleToFloat(settings.threshold),
     blur_amount |-> Int64ToInt(settings.blur_amount),
     edge_smoothing |-> Int64ToInt(settings.edge_smoothing)]

nonUpdate ==
    <<gate, process_mutex, inference, create, pc, loc, composite, destroy>>

\* lines 62-68: the locals after the test
Validated(u) ==
    IF ValidateConfigValues(u.threshold, u.blur_amount, u.edge_smoothing)
        THEN [u EXCEPT !.pc = "store"]
        ELSE [u EXCEPT !.pc = "store", !.threshold = Float(50),
                       !.blur_amount = 15, !.edge_smoothing = 3]

\* lines 62-68
UpdateValidate ==
    /\ upd.pc = "validate"
    /\ ~Crashed
    /\ cfgcall' = [called |-> TRUE, threshold |-> upd.threshold,
                   blur_amount |-> upd.blur_amount,
                   edge_smoothing |-> upd.edge_smoothing,
                   ret |-> ValidateConfigValues(upd.threshold, upd.blur_amount,
                                                upd.edge_smoothing)]
    /\ upd' = Validated(upd)
    /\ UNCHANGED filter
    /\ UNCHANGED nonUpdate

\* lines 71-77, one assignment at a time, and the return
UpdateStore ==
    /\ upd.pc = "store"
    /\ ~Crashed
    /\ filter' = [filter EXCEPT ![StoreOrder[upd.next]] =
                                    StoredValue(upd, StoreOrder[upd.next])]
    /\ upd' = IF upd.next = Len(StoreOrder)
                  THEN [upd EXCEPT !.pc = "idle", !.next = 1]
                  ELSE [upd EXCEPT !.next = upd.next + 1]
    /\ UNCHANGED cfgcall
    /\ UNCHANGED nonUpdate

\* the settings fields of the instance after a whole update call
Applied(settings) ==
    [field \in {StoreOrder[i] : i \in 1..Len(StoreOrder)} |->
        StoredValue(Validated(UpdateBegin(settings)), field)]

(***************************************************************************)
(* background_filter_data and ModelInference as constructed.               *)
(***************************************************************************)
\* new background_filter_data() and lines 16-21
FilterNew ==
    [threshold |-> Float(0), blur_background |-> FALSE, blur_amount |-> 0,
     replace_background |-> FALSE, replacement_color |-> <<0, 0, 0, 0>>,
     smooth_edges |-> FALSE, edge_smoothing |-> 0, width |-> 0, height |-> 0,
     model_loaded |-> FALSE, processing |-> FALSE]

\* the member initialisers of ModelInference::ModelInference; onnx is
\* HAVE_ONNXRUNTIME, members counts the ONNX Runtime members the
\* constructor built before it returned (env_, session_options_, memory_info_)
InferenceNew(onnx) ==
    [onnx |-> onnx, members |-> 0, session |-> FALSE, model_loaded_ |-> FALSE,
     input_names |-> 0, output_names |-> 0, input_shape |-> <<>>,
     input_height |-> 320, input_width |-> 320]

\* the locals of one background_filter_video call: what it read of the
\* settings (used, read), whether a step of the pipeline failed, what
\* became of the frame, and what the call found in the fields it writes
\* when it took the mutex (entry)
LocIdle ==
    [overlap |-> FALSE, format |-> "none", failed |-> FALSE, read |-> {},
     entry |-> [width |-> 0, height |-> 0, processing |-> FALSE],
     used |-> [f \in {"threshold", "blur_background", "blur_amount",
                      "replace_background", "replacement_color",
                      "smooth_edges", "edge_smoothing"} |-> FilterNew[f]],
     engine |-> FALSE, data |-> "input"]

CreateNew ==
    [pc |-> "new", have_path |-> FALSE, model_path |-> AbsPath(<<>>),
     loaded |-> FALSE, path_ok |-> FALSE, integrity_ok |-> FALSE]

(***************************************************************************)
(* Inputs of the filter.                                                   *)
(***************************************************************************)
\* what obs_module_file("models/u2net.onnx") can return besides NULL
ModulePaths ==
    {AbsPath(<<SysModels, U2net>>), AbsPath(<<TmpDir, Evil>>),
     AbsPath(<<SysModels, OutLink>>), RelPath(<<DotDot, U2net>>)}

AltSettings ==
    [threshold |-> Double(Float(30), 0), blur_background |-> TRUE,
     blur_amount |-> Int64(0, 20), replace_background |-> FALSE,
     replacement_color |-> <<0, 0, 0, 255>>, smooth_edges |-> FALSE,
     edge_smoothing |-> Int64(0, 5)]

\* the settings the host hands to a live filter
HostSettings == {DefaultSettings, AltSettings}

(***************************************************************************)
(* background_filter_create, with ModelInference::ModelInference and       *)
(* ModelInference::LoadModel in line.                                      *)
(***************************************************************************)
nonCreate == <<cfgcall, upd, process_mutex, pc, loc, composite, destroy>>

\* background-filter.cpp:15-24 and model-inference.cpp:13-45: without ONNX
\* Runtime nothing is built; with it the constructor's try block builds
\* env_, session_options_ and memory_info_ until one of them throws
CreateConstruct ==
    /\ create.pc = "new"
    /\ \E members \in 0..3 :
        /\ inference.onnx \/ members = 0
        /\ inference' = [inference EXCEPT !.members = members]
    /\ create' = [create EXCEPT !.pc = "module_file"]
    /\ UNCHANGED <<gate, filter>>
    /\ UNCHANGED nonCreate

\* background-filter.cpp:27-28 and model-inference.cpp:54-74: NULL skips
\* the load, a build without ONNX Runtime fails it, and otherwise LoadModel
\* builds allowed_dirs (with or without HOME) and calls the gate
CreateLoadModel ==
    /\ create.pc = "module_file"
    /\ \/ /\ create' = [create EXCEPT !.pc = "loaded"]
          /\ gate' = gate
       \/ \E path \in ModulePaths :
            IF ~inference.onnx
                THEN /\ create' = [create EXCEPT !.pc = "loaded",
                                       !.have_path = TRUE, !.model_path = path]
                     /\ gate' = gate
                ELSE \E home \in BOOLEAN :
                     /\ create' = [create EXCEPT !.pc = "gate",
                                       !.have_path = TRUE, !.model_path = path]
                     /\ gate' = GateCall(path,
                            (IF home THEN <<AbsPath(<<UserData, UserModels>>),
                                            AbsPath(<<UserData>>)>>
                                     ELSE <<>>)
                            \o <<AbsPath(<<SysModels>>), AbsPath(<<LocalModels>>)>>,
                            <<>>)
    /\ UNCHANGED <<filter, inference>>
    /\ UNCHANGED nonCreate

\* model-inference.cpp:74-86 and 127-130: the gate's answer; its locals
\* die with the two calls
CreateGateResult ==
    /\ create.pc = "gate"
    /\ gate.pc = "done"
    /\ create' = [create EXCEPT
                     !.pc = IF gate.result = "Authorized" THEN "session_options"
                            ELSE "loaded",
                     !.path_ok = gate.reason \notin {"traversal", "outside"},
                     !.integrity_ok = (gate.result = "Authorized")]
    /\ gate' = GateIdle
    /\ UNCHANGED <<filter, inference>>
    /\ UNCHANGED nonCreate

\* model-inference.cpp:89: session_options_ is null when the constructor
\* failed before building it, and the call through it faults
CreateSessionOptions ==
    /\ create.pc = "session_options"
    /\ create' = [create EXCEPT !.pc = IF inference.members >= 2 THEN "session"
                                       ELSE "crashed"]
    /\ UNCHANGED <<gate, filter, inference>>
    /\ UNCHANGED nonCreate

\* model-inference.cpp:94: the engine accepts the artifact or throws
CreateSession ==
    /\ create.pc = "session"
    /\ \/ /\ inference' = [inference EXCEPT !.session = TRUE]
          /\ create' = [create EXCEPT !.pc = "io_info"]
       \/ /\ inference' = inference
          /\ create' = [create EXCEPT !.pc = "loaded"]
    /\ UNCHANGED <<gate, filter>>
    /\ UNCHANGED nonCreate

\* the shapes of the first input of the models the engine is given: an
\* image tensor (N, C, H, W) and a feature vector (N, F)
InputShapes == {<<1, 3, 256, 256>>, <<1, 8>>}

\* what GetInputCount, GetOutputCount and the first input's GetShape say:
\* a model with one input and one output, one without inputs and one
\* without outputs
ModelGraphs ==
    {[num_input_nodes |-> 1, num_output_nodes |-> 1, shape |-> sh] :
        sh \in InputShapes}
    \cup {[num_input_nodes |-> 0, num_output_nodes |-> 1, shape |-> <<>>],
          [num_input_nodes |-> 1, num_output_nodes |-> 0,
           shape |-> <<1, 3, 256, 256>>]}

\* model-inference.cpp:97-125: the input and output names are recorded
\* when the model has such a node, the input size when the first input has
\* four dimensions or more; then model_loaded_ is set
CreateIOInfo ==
    /\ create.pc = "io_info"
    /\ \E graph \in ModelGraphs :
        inference' = [inference EXCEPT
                         !.input_names = graph.num_input_nodes,
                         !.input_shape = graph.shape,
                         !.input_height = IF Len(graph.shape) >= 4
                                              THEN graph.shape[3] ELSE @,
                         !.input_width = IF Len(graph.shape) >= 4
                                             THEN graph.shape[4] ELSE @,
                         !.output_names = graph.num_output_nodes,
                         !.model_loaded_ = TRUE]
    /\ create' = [create EXCEPT !.pc = "loaded", !.loaded = TRUE]
    /\ UNCHANGED <<gate, filter>>
    /\ UNCHANGED nonCreate

LoadSucceeded_PathOnly(model_path, load_model) == model_path

\* model_path && filter->inference->LoadModel(model_path)
LoadSucceeded(model_path, load_model) == model_path /\ load_model

\* background-filter.cpp:28-37: model_loaded, then the first update
CreateUpdate ==
    /\ create.pc = "loaded"
    /\ filter' = [filter EXCEPT
                     !.model_loaded = LoadSucceeded(create.have_path, create.loaded)]
    /\ create' = [create EXCEPT !.pc = "update"]
    /\ \E settings \in HostSettings : upd' = UpdateBegin(settings)
    /\ UNCHANGED <<gate, inference, cfgcall, process_mutex, pc, loc,
                   composite, destroy>>

\* background-filter.cpp:39: the host gets the instance
CreateReturn ==
    /\ create.pc = "update"
    /\ upd.pc = "idle"
    /\ create' = [create EXCEPT !.pc = "live"]
    /\ UNCHANGED <<gate, filter, inference>>
    /\ UNCHANGED nonCreate

\* the host's background_filter_update on the live instance
HostUpdate ==
    /\ create.pc = "live"
    /\ destroy.pc = "idle"
    /\ ~Crashed
    /\ upd.pc = "idle"
    /\ \E settings \in HostSettings : upd' = UpdateBegin(settings)
    /\ UNCHANGED <<cfgcall, filter>>
    /\ UNCHANGED nonUpdate

(***************************************************************************)
(* background_filter_video, one action per statement that reads or writes  *)
(* the instance, with ModelInference::RunInference in line.                *)
(***************************************************************************)
VideoFormats == {"I420", "NV12", "RGBA", "BGRA"}
SupportedFormats == {"I420", "NV12", "RGBA"}
FrameSizes == {<<4, 2>>}

nonVideo == <<gate, cfgcall, upd, inference, create, composite, destroy>>

Goto(t, label) == pc' = [pc EXCEPT ![t] = label]

\* a read of one settings field by the call of thread t
ReadField(t, field) ==
    [loc EXCEPT ![t].used[field] = filter[field],
                ![t].read = loc[t].read \cup {field}]

\* what the unlocked read of filter->processing at line 125 can return: the
\* read races with the writes of the call that holds the mutex
ProcessingValues ==
    IF process_mutex # None THEN BOOLEAN ELSE {filter.processing}

\* !filter->model_loaded || filter->processing
DropCheck(model_loaded, processing) == ~model_loaded \/ processing

MutexFree_Always(holder) == TRUE

\* std::mutex: lock() returns only when no thread owns the mutex
MutexFree(holder) == holder = None

ClearProcessing_Missing(f) == f

\* filter->processing = false (lines 155, 162 and 227)
ClearProcessing(f) == [f EXCEPT !.processing = FALSE]

\* an exception leaves the try block for the handler of line 223; l is
\* what the call had read when it was thrown
Throw(t, l) ==
    /\ Goto(t, "catch")
    /\ loc' = [l EXCEPT ![t].failed = TRUE]

\* line 125
VideoCall(t) ==
    /\ create.pc = "live"
    /\ destroy.pc = "idle"
    /\ ~Crashed
    /\ pc[t] = "idle"
    /\ \E processing \in ProcessingValues :
        IF DropCheck(filter.model_loaded, processing)
            THEN /\ Goto(t, "return")
                 /\ loc' = [loc EXCEPT ![t].overlap = process_mutex # None]
            ELSE /\ Goto(t, "lock")
                 /\ loc' = [loc EXCEPT ![t].overlap = process_mutex # None]
    /\ UNCHANGED <<filter, process_mutex>>
    /\ UNCHANGED nonVideo

\* line 129; once the instance is freed the mutex lies in freed memory, and
\* the call either faults or goes on as if it were still there
VideoLock(t) ==
    /\ pc[t] = "lock"
    /\ ~Crashed
    /\ destroy' = IF destroy.freed
                      THEN [destroy EXCEPT !.accessed = @ \cup {t}]
                      ELSE destroy
    /\ \/ /\ MutexFree(process_mutex)
          /\ process_mutex' = t
          /\ Goto(t, "set_processing")
          /\ loc' = [loc EXCEPT ![t].entry = [width |-> filter.width,
                                              height |-> filter.height,
                                              processing |-> filter.processing]]
       \/ /\ destroy.freed
          /\ Goto(t, "crashed")
          /\ UNCHANGED <<process_mutex, loc>>
    /\ UNCHANGED filter
    /\ UNCHANGED <<gate, cfgcall, upd, inference, create, composite>>

\* line 130
VideoSetProcessing(t) ==
    /\ pc[t] = "set_processing"
    /\ ~Crashed
    /\ filter' = [filter EXCEPT !.processing = TRUE]
    /\ Goto(t, "dims")
    /\ UNCHANGED <<process_mutex, loc>>
    /\ UNCHANGED nonVideo

\* lines 133-136
VideoDims(t) ==
    /\ pc[t] = "dims"
    /\ ~Crashed
    /\ \E size \in FrameSizes :
        filter' = [filter EXCEPT !.width = size[1], !.height = size[2]]
    /\ Goto(t, "convert")
    /\ UNCHANGED <<process_mutex, loc>>
    /\ UNCHANGED nonVideo

\* lines 140-157: conversion of a supported format (which can throw), or
\* the early return of an unsupported one
VideoConvert(t) ==
    /\ pc[t] = "convert"
    /\ ~Crashed
    /\ \E format \in VideoFormats, thrown \in BOOLEAN :
        /\ IF format \notin SupportedFormats
               THEN /\ filter' = ClearProcessing(filter)
                    /\ loc' = [loc EXCEPT ![t].format = format]
                    /\ Goto(t, "return")
               ELSE /\ filter' = filter
                    /\ IF thrown
                           THEN Throw(t, [loc EXCEPT ![t].format = format])
                           ELSE /\ loc' = [loc EXCEPT ![t].format = format]
                                /\ Goto(t, "inference")
    /\ UNCHANGED process_mutex
    /\ UNCHANGED nonVideo

\* model-inference.cpp:137-207: "mock" without ONNX Runtime, "refused" at
\* line 140, "fault" on a null memory_info_ or an empty name array, else
\* the engine runs and answers or throws; it throws on the four-dimensional
\* tensor of line 165 when the model's input has another rank
RunInferenceOutcomes(inf) ==
    IF ~inf.onnx THEN {"mock"}
    ELSE IF ~inf.model_loaded_ \/ ~inf.session THEN {"refused"}
    ELSE IF inf.members < 3 \/ inf.input_names = 0 \/ inf.output_names = 0
        THEN {"fault"}
    ELSE IF Len(inf.input_shape) < 4 THEN {"threw"}
    ELSE {"mask", "threw"}

\* lines 160-164
VideoInference(t) ==
    /\ pc[t] = "inference"
    /\ ~Crashed
    /\ \E outcome \in RunInferenceOutcomes(inference) :
        /\ loc' = [ReadField(t, "threshold") EXCEPT
                      ![t].engine = outcome \in {"mask", "threw"},
                      ![t].failed = outcome \in {"refused", "threw"}]
        /\ IF outcome = "fault"
               THEN Goto(t, "crashed") /\ filter' = filter
           ELSE IF outcome \in {"refused", "threw"}
               THEN /\ filter' = ClearProcessing(filter)
                    /\ Goto(t, "return")
           ELSE Goto(t, "smooth_edges") /\ filter' = filter
    /\ UNCHANGED process_mutex
    /\ UNCHANGED nonVideo

\* line 167, left operand
VideoSmoothEdges(t) ==
    /\ pc[t] = "smooth_edges"
    /\ ~Crashed
    /\ loc' = ReadField(t, "smooth_edges")
    /\ Goto(t, IF filter.smooth_edges THEN "edge_smoothing"
               ELSE "replace_background")
    /\ UNCHANGED <<filter, process_mutex>>
    /\ UNCHANGED nonVideo

\* lines 167-171, the strength and the blur of the mask, which can throw
VideoEdgeSmoothing(t) ==
    /\ pc[t] = "edge_smoothing"
    /\ ~Crashed
    /\ \E thrown \in BOOLEAN :
        IF thrown THEN Throw(t, ReadField(t, "edge_smoothing"))
        ELSE /\ loc' = ReadField(t, "edge_smoothing")
             /\ Goto(t, "replace_background")
    /\ UNCHANGED <<filter, process_mutex>>
    /\ UNCHANGED nonVideo

\* lines 174-176
VideoReplaceBackground(t) ==
    /\ pc[t] = "replace_background"
    /\ ~Crashed
    /\ loc' = ReadField(t, "replace_background")
    /\ Goto(t, IF filter.replace_background THEN "replacement_color"
               ELSE "blur_background")
    /\ UNCHANGED <<filter, process_mutex>>
    /\ UNCHANGED nonVideo

\* lines 174 and 177-191: the clone and the blend can throw
VideoReplacementColor(t) ==
    /\ pc[t] = "replacement_color"
    /\ ~Crashed
    /\ \E thrown \in BOOLEAN :
        IF thrown THEN Throw(t, ReadField(t, "replacement_color"))
        ELSE /\ loc' = ReadField(t, "replacement_color")
             /\ Goto(t, "write_back")
    /\ UNCHANGED <<filter, process_mutex>>
    /\ UNCHANGED nonVideo

\* line 192
VideoBlurBackground(t) ==
    /\ pc[t] = "blur_background"
    /\ ~Crashed
    /\ loc' = ReadField(t, "blur_background")
    /\ Goto(t, IF filter.blur_background THEN "blur_amount" ELSE "write_back")
    /\ UNCHANGED <<filter, process_mutex>>
    /\ UNCHANGED nonVideo

\* lines 193-205: the blur and the blend can throw
VideoBlurAmount(t) ==
    /\ pc[t] = "blur_amount"
    /\ ~Crashed
    /\ \E thrown \in BOOLEAN :
        IF thrown THEN Throw(t, ReadField(t, "blur_amount"))
        ELSE /\ loc' = ReadField(t, "blur_amount")
             /\ Goto(t, "write_back")
    /\ UNCHANGED <<filter, process_mutex>>
    /\ UNCHANGED nonVideo

\* lines 208-221: the conversion back can throw before the memcpy
VideoWriteBack(t) ==
    /\ pc[t] = "write_back"
    /\ ~Crashed
    /\ \E thrown \in BOOLEAN :
        IF thrown THEN Throw(t, loc)
        ELSE Goto(t, "clear") /\ loc' = [loc EXCEPT ![t].data = "written"]
    /\ UNCHANGED <<filter, process_mutex>>
    /\ UNCHANGED nonVideo

\* lines 223-225
VideoCatch(t) ==
    /\ pc[t] = "catch"
    /\ ~Crashed
    /\ Goto(t, "clear")
    /\ UNCHANGED <<filter, process_mutex, loc>>
    /\ UNCHANGED nonVideo

\* line 227
VideoClear(t) ==
    /\ pc[t] = "clear"
    /\ ~Crashed
    /\ filter' = ClearProcessing(filter)
    /\ Goto(t, "return")
    /\ UNCHANGED <<process_mutex, loc>>
    /\ UNCHANGED nonVideo

\* the return statements at lines 126, 156, 163 and 228, and ~lock_guard
VideoReturn(t) ==
    /\ pc[t] = "return"
    /\ ~Crashed
    /\ process_mutex' = IF process_mutex = t THEN None ELSE process_mutex
    /\ Goto(t, "idle")
    /\ loc' = [loc EXCEPT ![t] = LocIdle]
    /\ UNCHANGED filter
    /\ UNCHANGED nonVideo

(***************************************************************************)
(* The compositor of background_filter_video (lines 173-206) as a           *)
(* function of the converted frame, the mask and the settings.  An image   *)
(* is a row of BGR pixels, a mask a row of alphas in hundredths (0, 0.5    *)
(* and 1 are exact as floats).                                             *)
(***************************************************************************)
\* cvRound: to the nearest integer, halves to the even one (n, d >= 0)
RoundHalfEven(n, d) ==
    LET q == n \div d
        r == n % d
    IN  IF 2 * r < d THEN q
        ELSE IF 2 * r > d THEN q + 1
        ELSE IF q % 2 = 0 THEN q ELSE q + 1

\* cv::saturate_cast<uchar>
SaturateCast(v) == IF v > 255 THEN 255 ELSE IF v < 0 THEN 0 ELSE v

\* Vec3b * float: every channel is scaled and cast back to uchar
Scale(pixel, alpha) ==
    [c \in 1..3 |-> SaturateCast(RoundHalfEven(pixel[c] * alpha, 100))]

\* Vec3b + Vec3b
AddSaturate(a, b) == [c \in 1..3 |-> SaturateCast(a[c] + b[c])]

\* original * alpha + background * (1.0f - alpha)
BlendPixel(original, background, alpha) ==
    AddSaturate(Scale(original, alpha), Scale(background, 100 - alpha))

\* bg_color: bits 0-7, 8-15 and 16-23 of replacement_color (the colour is
\* held most significant byte first)
BgColor(replacement_color) ==
    <<replacement_color[4], replacement_color[3], replacement_color[2]>>

\* BORDER_REFLECT_101 on a row of n pixels
Reflect101(i, n) ==
    IF n = 1 THEN 1 ELSE IF i < 1 THEN 2 - i ELSE IF i > n THEN 2 * n - i ELSE i

\* cv::GaussianBlur with a kernel of 3 and sigma 0 on one row: the fixed
\* kernel (1/4, 1/2, 1/4), rounded to the nearest
GaussianBlur(image) ==
    LET n == Len(image)
    IN  [i \in 1..n |->
            [c \in 1..3 |->
                (image[Reflect101(i - 1, n)][c] + 2 * image[i][c]
                 + image[Reflect101(i + 1, n)][c] + 2) \div 4]]

Branch_BlurFirst(replace_background, blur_background) ==
    IF blur_background THEN "blur"
    ELSE IF replace_background THEN "replace"
    ELSE "none"

\* the if / else if of lines 176 and 192
Branch(replace_background, blur_background) ==
    IF replace_background THEN "replace"
    ELSE IF blur_background THEN "blur"
    ELSE "none"

\* lines 174-206: output_frame
Composite(input_frame, mask, replace_background, blur_background, replacement_color) ==
    LET branch == Branch(replace_background, blur_background)
        blurred == GaussianBlur(input_frame)
    IN  [i \in 1..Len(input_frame) |->
            IF branch = "replace"
                THEN BlendPixel(input_frame[i], BgColor(replacement_color), mask[i])
            ELSE IF branch = "blur"
                THEN BlendPixel(input_frame[i], blurred[i], mask[i])
            ELSE input_frame[i]]

CompositeIdle ==
    [pc |-> "idle", input_frame |-> <<>>, mask |-> <<>>,
     replace_background |-> FALSE, blur_background |-> FALSE,
     replacement_color |-> <<0, 0, 0, 0>>, output_frame |-> <<>>]

CompositeCall(input_frame, mask, replace_background, blur_background, replacement_color) ==
    [pc |-> "call", input_frame |-> input_frame, mask |-> mask,
     replace_background |-> replace_background,
     blur_background |-> blur_background,
     replacement_color |-> replacement_color, output_frame |-> <<>>]

CompositeFrame ==
    /\ composite.pc = "call"
    /\ composite' =
          [composite EXCEPT
              !.pc = "done",
              !.output_frame = Composite(composite.input_frame, composite.mask,
                                         composite.replace_background,
                                         composite.blur_background,
                                         composite.replacement_color)]
    /\ UNCHANGED <<gate, cfgcall, upd, filter, process_mutex, inference, create,
                   pc, loc, destroy>>

\* inputs of the compositor
Pixels == {<<0, 0, 0>>, <<255, 255, 255>>, <<1, 128, 201>>}
Alphas == {0, 50, 100}
ReplacementColors == {<<255, 0, 255, 0>>, <<255, 1, 254, 3>>}
Images == UNION {[1..n -> Pixels] : n \in 1..MaxWidth}
Masks(n) == [1..n -> Alphas]

(***************************************************************************)
(* background_filter_destroy                                               *)
(***************************************************************************)
\* freed: delete filter has run; accessed: who has touched the instance
\* since
DestroyIdle == [pc |-> "idle", freed |-> FALSE, accessed |-> {}]

nonDestroy ==
    <<gate, cfgcall, upd, filter, inference, create, pc, loc, composite>>

\* lines 42-44: the host destroys the live instance
DestroyCall ==
    /\ create.pc = "live"
    /\ ~Crashed
    /\ upd.pc = "idle"
    /\ destroy.pc = "idle"
    /\ destroy' = [destroy EXCEPT !.pc = "lock"]
    /\ UNCHANGED process_mutex
    /\ UNCHANGED nonDestroy

\* line 47
DestroyLock ==
    /\ destroy.pc = "lock"
    /\ ~Crashed
    /\ MutexFree(process_mutex)
    /\ process_mutex' = Destroyer
    /\ destroy' = [destroy EXCEPT !.pc = "delete"]
    /\ UNCHANGED nonDestroy

\* line 49: the instance, its mutex included, is freed while lock owns it
DestroyDelete ==
    /\ destroy.pc = "delete"
    /\ ~Crashed
    /\ destroy' = [destroy EXCEPT !.pc = "unlock", !.freed = TRUE]
    /\ UNCHANGED process_mutex
    /\ UNCHANGED nonDestroy

\* line 50: ~lock_guard unlocks filter->process_mutex, which lies in the
\* freed instance; the unlock goes through or faults
DestroyUnlock ==
    /\ destroy.pc = "unlock"
    /\ ~Crashed
    /\ \/ /\ process_mutex' = None
          /\ destroy' = [destroy EXCEPT
                             !.pc = "done",
                             !.accessed = IF destroy.freed
                                              THEN @ \cup {Destroyer} ELSE @]
       \/ /\ destroy.freed
          /\ process_mutex' = process_mutex
          /\ destroy' = [destroy EXCEPT !.pc = "crashed",
                                        !.accessed = @ \cup {Destroyer}]
    /\ UNCHANGED nonDestroy

(***************************************************************************)
(* Specifications.                                                         *)
(***************************************************************************)
\* the life of one filter instance, from background_filter_create on
Init ==
    /\ gate = GateIdle
    /\ cfgcall = CfgIdle
    /\ upd = UpdIdle
    /\ filter = FilterNew
    /\ process_mutex = None
    /\ inference \in {InferenceNew(onnx) : onnx \in BOOLEAN}
    /\ create = CreateNew
    /\ pc = [t \in Threads |-> "idle"]
    /\ loc = [t \in Threads |-> LocIdle]
    /\ composite = CompositeIdle
    /\ destroy = DestroyIdle

Next ==
    \/ CreateConstruct \/ CreateLoadModel \/ CreateGateResult
    \/ CreateSessionOptions \/ CreateSession \/ CreateIOInfo
    \/ CreateUpdate \/ CreateReturn
    \/ GateTraversal \/ GateContain \/ GateExists \/ GateRegular
    \/ GateSize \/ GateExtension \/ GateChecksum
    \/ HostUpdate \/ UpdateValidate \/ UpdateStore
    \/ DestroyCall \/ DestroyLock \/ DestroyDelete \/ DestroyUnlock
    \/ \E t \in Threads :
        \/ VideoCall(t) \/ VideoLock(t) \/ VideoSetProcessing(t) \/ VideoDims(t)
        \/ VideoConvert(t) \/ VideoInference(t) \/ VideoSmoothEdges(t)
        \/ VideoEdgeSmoothing(t) \/ VideoReplaceBackground(t)
        \/ VideoReplacementColor(t) \/ VideoBlurBackground(t)
        \/ VideoBlurAmount(t) \/ VideoWriteBack(t) \/ VideoCatch(t)
        \/ VideoClear(t) \/ VideoReturn(t)

Spec == Init /\ [][Next]_vars

\* the gate on every path, allow-list and expected hash of the bounds
InitGate ==
    /\ gate \in {GateCall(filepath, allowed, expected_hash) :
                    filepath \in GatePaths, allowed \in AllowLists,
                    expected_hash \in ExpectedHashes}
    /\ cfgcall = CfgIdle
    /\ upd = UpdIdle
    /\ filter = FilterNew
    /\ process_mutex = None
    /\ inference = InferenceNew(TRUE)
    /\ create = CreateNew
    /\ pc = [t \in Threads |-> "idle"]
    /\ loc = [t \in Threads |-> LocIdle]
    /\ composite = CompositeIdle
    /\ destroy = DestroyIdle

NextGate ==
    \/ GateTraversal \/ GateContain \/ GateExists \/ GateRegular
    \/ GateSize \/ GateExtension \/ GateChecksum

SpecGate == InitGate /\ [][NextGate]_vars

\* update calls alone, on every settings object of the bounds
Thresholds ==
    {Double(NaN, 0), Double(Float(-1), 0), Double(Float(0), 0),
     Double(Float(30), 0), Double(Float(100), 0), Double(Float(100), 1),
     Double(Float(101), 0)}

BlurAmounts == {Int64(0, 0), Int64(0, 1), Int64(0, 50), Int64(0, 51), Int64(1, 5)}

EdgeSmoothings == {Int64(0, 0), Int64(0, 1), Int64(0, 10), Int64(0, 11)}

AnySettings ==
    {[DefaultSettings EXCEPT !.threshold = t, !.blur_amount = b,
                             !.edge_smoothing = e] :
        t \in Thresholds, b \in BlurAmounts, e \in EdgeSmoothings}

\* the instance as background_filter_create returns it when no model loads
\* and the settings are the defaults
InitConfig ==
    /\ gate = GateIdle
    /\ cfgcall = CfgIdle
    /\ upd = UpdIdle
    /\ filter = [field \in DOMAIN FilterNew |->
                    IF field \in DOMAIN Applied(DefaultSettings)
                        THEN Applied(DefaultSettings)[field]
                        ELSE FilterNew[field]]
    /\ process_mutex = None
    /\ inference = InferenceNew(TRUE)
    /\ create = [CreateNew EXCEPT !.pc = "live"]
    /\ pc = [t \in Threads |-> "idle"]
    /\ loc = [t \in Threads |-> LocIdle]
    /\ composite = CompositeIdle
    /\ destroy = DestroyIdle

ConfigUpdate ==
    /\ create.pc = "live"
    /\ upd.pc = "idle"
    /\ \E settings \in AnySettings : upd' = UpdateBegin(settings)
    /\ UNCHANGED <<cfgcall, filter>>
    /\ UNCHANGED nonUpdate

NextConfig == ConfigUpdate \/ UpdateValidate \/ UpdateStore

SpecConfig == InitConfig /\ [][NextConfig]_vars

\* the compositor alone, on every image, mask and settings of the bounds
InitComposite ==
    /\ composite \in {CompositeCall(image, mask, replace_background,
                                    blur_background, replacement_color) :
                         image \in Images, mask \in UNION {Masks(n) : n \in 1..MaxWidth},
                         replace_background \in BOOLEAN,
                         blur_background \in BOOLEAN,
                         replacement_color \in ReplacementColors}
    /\ Len(composite.mask) = Len(composite.input_frame)
    /\ gate = GateIdle
    /\ cfgcall = CfgIdle
    /\ upd = UpdIdle
    /\ filter = FilterNew
    /\ process_mutex = None
    /\ inference = InferenceNew(TRUE)
    /\ create = CreateNew
    /\ pc = [t \in Threads |-> "idle"]
    /\ loc = [t \in Threads |-> LocIdle]
    /\ destroy = DestroyIdle

NextComposite == CompositeFrame

SpecComposite == InitComposite /\ [][NextComposite]_vars

(***************************************************************************)
(* Properties of the frame entry point.                                    *)
(***************************************************************************)
\* the statements of background_filter_video executed under process_mutex
\* before the lock_guard is destroyed
LockedLabels ==
    {"set_processing", "dims", "convert", "inference", "smooth_edges",
     "edge_smoothing", "replace_background", "replacement_color",
     "blur_background", "blur_amount", "write_back", "catch", "clear"}

\* C1: a call that arrives while another call of the instance holds
\* process_mutex (is processing a frame) goes straight to its return with
\* the frame untouched: it is never found waiting for the mutex or inside
\* the processing section.
C1_DropNotQueue ==
    \A t \in Threads :
        loc[t].overlap => pc[t] = "return" /\ loc[t].data = "input"

\* C2: at most one call of the instance is inside the frame-processing
\* section at a time.
C2_MutualExclusion ==
    Cardinality({t \in Threads : pc[t] \in LockedLabels}) <= 1

\* one call is writing its frame back while another waits for the mutex
C2_Witness ==
    \E t, u \in Threads :
        /\ t # u
        /\ pc[t] = "write_back"
        /\ pc[u] = "lock"
        /\ process_mutex = t

\* C3: the settings one frame is processed with are one complete set.
\* Every complete set the instance ever holds is Applied(s) for a settings
\* object s the host supplied, so the fields a call has read must all
\* agree with one such set, never with a mix of two.
C3_AtomicSnapshot ==
    \A t \in Threads :
        \E settings \in HostSettings :
            \A field \in loc[t].read :
                loc[t].used[field] = Applied(settings)[field]

(***************************************************************************)
(* Properties of the configuration validator and of update.                *)
(***************************************************************************)
\* 0 <= t <= 1 on a float
ThresholdInRange(t) == ~t.nan /\ 0 <= t.v /\ t.v <= 100

\* the supplied double lies in [0, 1]
SuppliedThresholdInRange(d) ==
    /\ ThresholdInRange(d.f)
    /\ ~(d.f.v = 100 /\ d.residue > 0)
    /\ ~(d.f.v = 0 /\ d.residue < 0)

\* the supplied 64-bit integer lies in lo..hi
SuppliedIntInRange(n, lo, hi) == n.hi = 0 /\ lo <= n.lo /\ n.lo <= hi

\* C4: after any sequence of update calls the stored threshold is in
\* [0,1], blur_amount in [1,50], edge_smoothing in [1,10], and when one of
\* the three supplied values is out of range all three stored values are
\* the defaults (0.5, 15, 3).
C4_StoredValidated ==
    (upd.pc = "idle" /\ cfgcall.called) =>
        /\ ThresholdInRange(filter.threshold)
        /\ filter.blur_amount \in 1..50
        /\ filter.edge_smoothing \in 1..10
        /\ (~(/\ SuppliedThresholdInRange(upd.settings.threshold)
              /\ SuppliedIntInRange(upd.settings.blur_amount, 1, 50)
              /\ SuppliedIntInRange(upd.settings.edge_smoothing, 1, 10))
            => /\ filter.threshold = Float(50)
               /\ filter.blur_amount = 15
               /\ filter.edge_smoothing = 3)

\* C5: ValidateConfigValues(t, b, s) returns true if and only if
\* 0 <= t <= 1 and 1 <= b <= 50 and 1 <= s <= 10.
C5_ValidateIff ==
    cfgcall.called =>
        (cfgcall.ret <=>
            /\ ThresholdInRange(cfgcall.threshold)
            /\ cfgcall.blur_amount \in 1..50
            /\ cfgcall.edge_smoothing \in 1..10)

(***************************************************************************)
(* Properties of the load.                                                 *)
(***************************************************************************)
\* C6: an instance whose load did not succeed at creation stays unloaded:
\* its frames go straight to the return, unmodified, and the engine never
\* runs; the engine runs, and the session exists, only after the path
\* validation and the integrity check both succeeded.
C6_UnloadedForLife ==
    /\ (create.pc \in {"update", "live"} /\ ~create.loaded) =>
            /\ ~filter.model_loaded
            /\ \A t \in Threads :
                /\ pc[t] \in {"idle", "return"}
                /\ loc[t].data = "input"
                /\ ~loc[t].engine
    /\ inference.session => create.path_ok /\ create.integrity_ok
    /\ \A t \in Threads :
        loc[t].engine =>
            create.path_ok /\ create.integrity_ok /\ inference.session

\* the gate rejected the module's path and a later frame is handed back
C6_Witness ==
    /\ create.pc = "live"
    /\ inference.onnx
    /\ create.have_path
    /\ ~create.integrity_ok
    /\ ~create.loaded
    /\ \E t \in Threads : pc[t] = "return" /\ loc[t].data = "input"

(***************************************************************************)
(* Properties of the gate.                                                 *)
(***************************************************************************)
\* the file a path names, symlinks followed
Target(p) == WeaklyCanonical(Absolute(p))

\* lexical containment of one canonical path in another
ProperPrefix(base, names) ==
    Len(base) < Len(names) /\ SubSeq(names, 1, Len(base)) = base

Bases(allowed) == {Target(allowed[i]) : i \in 1..Len(allowed)}

InsideAllowed(names, allowed) ==
    \E base \in Bases(allowed) : ProperPrefix(base, names)

OutsideAllowed(names, allowed) ==
    \A base \in Bases(allowed) : ~ProperPrefix(base, names) /\ base # names

\* a name of the path is the parent-directory token
HasParentToken(p) == \E i \in 1..Len(p.names) : p.names[i] = DotDot

\* C7: a path with a parent-directory token is rejected, by the first
\* check, whatever the allow-list holds and wherever the path resolves.
C7_TraversalRejected ==
    (gate.pc = "done" /\ HasParentToken(gate.filepath)) =>
        gate.result = "Rejected" /\ gate.log = <<"traversal">>

\* a path with the token that resolves to a regular file inside an
\* allowed directory has been rejected
C7_Witness ==
    /\ gate.pc = "done"
    /\ HasParentToken(gate.filepath)
    /\ InsideAllowed(Target(gate.filepath), gate.allowed)
    /\ FileType(Target(gate.filepath)) = "regular"
    /\ gate.result = "Rejected"

\* C8: a path without a traversal token is rejected when its canonical
\* form is outside every allowed base directory, and authorized when its
\* canonical form is inside one, the target is a regular file within the
\* size cap, and the expected hash is absent or matches.
C8_ContainmentDecides ==
    (gate.pc = "done" /\ ~FindDotDot(PathString(gate.filepath))) =>
        /\ OutsideAllowed(Target(gate.filepath), gate.allowed)
            => gate.result = "Rejected"
        /\ (/\ InsideAllowed(Target(gate.filepath), gate.allowed)
            /\ FileType(Target(gate.filepath)) = "regular"
            /\ gate.file_size <= max_size
            /\ gate.result # "Threw"
            /\ \/ gate.expected_hash = <<>>
               \/ /\ ToLower(gate.expected_hash) = FileDigest(Target(gate.filepath))
                  /\ gate.digested => gate.calculated_hash # <<>>)
            => gate.result = "Authorized"

\* the last name of the path is a symbolic link
IsLink(p) ==
    LET a == Absolute(p)
    IN  a # <<>> /\ IsSymlink(Append(WeaklyCanonical(SubSeq(a, 1, Len(a) - 1)),
                                    a[Len(a)]))

CheckOrder ==
    <<"traversal", "contain", "exists", "regular", "size", "extension",
      "checksum">>

\* the check that gives each reason of rejection
FailedCheck(reason) ==
    CASE reason = "outside" -> "contain"
      [] reason = "missing" -> "exists"
      [] reason = "not_regular" -> "regular"
      [] OTHER -> reason

HashStepDone == gate.pc = "done" /\ Len(gate.log) = Len(CheckOrder)

\* C11: with an expected hash, the hash step authorizes exactly when the
\* digest could be computed and equals the expected hash up to the case of
\* the hex digits, and rejects otherwise; without one, the hash step
\* authorizes, computes no digest and issues the "unverified" warning.
C11_HashCompare ==
    /\ HashStepDone =>
        /\ gate.result \in {"Authorized", "Rejected"}
        /\ gate.expected_hash # <<>> =>
            /\ gate.digested
            /\ "unverified" \notin gate.warnings
            /\ gate.result = "Authorized" <=>
                    /\ gate.calculated_hash # <<>>
                    /\ ToLower(gate.expected_hash) =
                           FileDigest(Target(gate.filepath))
        /\ gate.expected_hash = <<>> =>
            /\ gate.result = "Authorized"
            /\ ~gate.digested
            /\ "unverified" \in gate.warnings
    /\ (gate.result = "Authorized" /\ gate.expected_hash # <<>>) =>
            ToLower(gate.expected_hash) = FileDigest(Target(gate.filepath))
    /\ gate.result = "Authorized" =>
            ("unverified" \in gate.warnings <=> gate.expected_hash = <<>>)

\* an expected hash in upper case has authorized the artifact with the
\* same digest
C11_Witness ==
    /\ HashStepDone
    /\ gate.expected_hash = <<"A", "B">>
    /\ gate.calculated_hash = <<"a", "b">>
    /\ gate.result = "Authorized"

(***************************************************************************)
(* Properties of a frame that fails.                                       *)
(***************************************************************************)
\* C12: when a call in which inference failed or a step of the pipeline
\* threw returns, the frame's buffer is as it came, the processing flag is
\* false, the mutex is free and the instance is still loaded, so that the
\* check of line 125 lets the next frame in.
C12_FrameFailureIsolated ==
    [][\A t \in Threads :
          (pc[t] = "return" /\ loc[t].failed /\ pc'[t] = "idle") =>
              /\ loc[t].data = "input"
              /\ filter'.processing = FALSE
              /\ process_mutex' = None
              /\ filter'.model_loaded
              /\ ~DropCheck(filter'.model_loaded, filter'.processing)]_vars

\* a call whose blend with the replacement colour threw is about to return
C12_Witness ==
    \E t \in Threads :
        /\ pc[t] = "return"
        /\ loc[t].failed
        /\ loc[t].engine
        /\ "replacement_color" \in loc[t].read

\* C13: a call on a frame of an unsupported format returns with the
\* frame's buffer as it came, without having run inference or read a
\* setting, and with the fields of the instance that the call writes
\* (width, height, processing) as they were when it took the mutex.
C13_UnsupportedFormat ==
    \A t \in Threads :
        (/\ pc[t] = "return"
         /\ loc[t].format \in VideoFormats \ SupportedFormats) =>
            /\ loc[t].data = "input"
            /\ ~loc[t].engine
            /\ loc[t].read = {}
            /\ process_mutex = t
            /\ filter.processing = loc[t].entry.processing
            /\ filter.width = loc[t].entry.width
            /\ filter.height = loc[t].entry.height

(***************************************************************************)
(* Properties of the model handle.                                         *)
(***************************************************************************)
\* the handle holds all that RunInference uses of the model
FullyInitialized(inf) ==
    /\ inf.session
    /\ inf.input_names = 1
    /\ inf.output_names = 1
    /\ Len(inf.input_shape) >= 4
    /\ inf.input_height = inf.input_shape[3]
    /\ inf.input_width = inf.input_shape[4]

\* C14: the handle is absent, and then no call has executed the engine,
\* or it is marked loaded, and then the session exists and the input name,
\* the output name and the input's spatial size have been recorded from
\* the model.
C14_HandleFullyInitialized ==
    /\ ~inference.model_loaded_ => \A t \in Threads : ~loc[t].engine
    /\ inference.model_loaded_ => FullyInitialized(inference)

\* LoadModel has returned to background_filter_create
LoadModelReturned == create.have_path /\ create.pc \in {"loaded", "update", "live"}

\* C15: LoadModel never faults, and it has returned false whenever the
\* gate rejected the path, a filesystem call of the integrity checks threw,
\* the engine refused the session, or the constructor had built no
\* session options.
C15_LoadModelNeverFaults ==
    /\ create.pc # "crashed"
    /\ (/\ LoadModelReturned
        /\ \/ ~create.path_ok
           \/ ~create.integrity_ok
           \/ ~inference.session
           \/ inference.members < 2) =>
            /\ ~create.loaded
            /\ ~inference.model_loaded_

(***************************************************************************)
(* Properties of the compositor.                                           *)
(***************************************************************************)
\* the pixel is original * alpha + background * (1 - alpha), to within the
\* rounding of one unit per channel
IsBlend(pixel, original, background, alpha) ==
    \A c \in 1..3 :
        LET exact == original[c] * alpha + background[c] * (100 - alpha)
        IN  /\ 100 * pixel[c] <= exact + 100
            /\ 100 * pixel[c] >= exact - 100

\* C16: with replace_background set the output is the blend of the input
\* with the replacement colour, whatever blur_background is; with only
\* blur_background set it is the blend with the blurred input; with
\* neither set it is the input, whatever the mask.
C16_CompositorBranches ==
    composite.pc = "done" =>
        LET input_frame == composite.input_frame
            output_frame == composite.output_frame
            pixels == 1..Len(input_frame)
        IN  /\ Len(output_frame) = Len(input_frame)
            /\ composite.replace_background =>
                    \A i \in pixels :
                        IsBlend(output_frame[i], input_frame[i],
                                BgColor(composite.replacement_color),
                                composite.mask[i])
            /\ (~composite.replace_background /\ composite.blur_background) =>
                    \A i \in pixels :
                        IsBlend(output_frame[i], input_frame[i],
                                GaussianBlur(input_frame)[i], composite.mask[i])
            /\ (~composite.replace_background /\ ~composite.blur_background) =>
                    output_frame = input_frame

\* with both flags set, a pixel of the background has become the
\* replacement colour and not the blurred input
C16_Witness ==
    /\ composite.pc = "done"
    /\ composite.replace_background
    /\ composite.blur_background
    /\ \E i \in 1..Len(composite.input_frame) :
        /\ composite.mask[i] = 0
        /\ composite.output_frame[i] = BgColor(composite.replacement_color)
        /\ ~IsBlend(composite.output_frame[i], composite.input_frame[i],
                    GaussianBlur(composite.input_frame)[i], 0)

(***************************************************************************)
(* Properties of background_filter_destroy.                                *)
(***************************************************************************)
\* C17: the instance is freed only when no call is inside the locked
\* section, and once it is freed neither a frame call nor destroy itself
\* touches it again.
C17_DestroyNoUseAfterFree ==
    /\ destroy.freed => \A t \in Threads : pc[t] \notin LockedLabels
                           \/ t \in destroy.accessed
    /\ destroy.accessed = {}

====
